---- MODULE Spec2Model ----
(***************************************************************************)
(* BirdsEye geolocate.py: the telemetry merge (Geolocate.data_handler),    *)
(* the main loop (Geolocate.main) in replay and in live (MQTT) mode, the   *)
(* planner queue, the step-duration wait, plotting and persistence.        *)
(*                                                                         *)
(* Python values: None is the empty tuple, a number x that may be None is  *)
(* <<x>>, a position is the pair <<lat, lon>>, a string is the tuple of    *)
(* its characters.  Floats are integers (the model only adds and           *)
(* subtracts whole degrees and grid units).  Durations are whole seconds.  *)
(***************************************************************************)
EXTENDS Integers, Sequences, FiniteSets, TLC

VARIABLES
    cfg,              \* the [geolocate] section of the configuration file
    replay_data,      \* the loaded replay file: timestamp key -> record
    replay_ts,        \* sorted(replay_data.keys())
    data,             \* self.data
    static_position,  \* self.static_position
    static_heading,   \* self.static_heading
    pc,               \* where main() is
    time_step,        \* main(): time_step
    control_actions,  \* main(): control_actions
    since_step,       \* time.perf_counter() - step_time, capped at StepPeriod
    hpc,              \* where the subscriber thread is inside data_handler
    message_data,     \* the record the subscriber thread is merging
    log,              \* the lines appended to birdseye-<start>.log, by utc_time
    snapshots,        \* the particle files written: <<utc_time, target>>
    merged,           \* history: replay keys handed to data_handler, in order
    coherent,         \* history: self.data as the last complete merge left it
    steps,            \* history: number of Environment.real_step calls
    plans,            \* history: ticks on which planner.get_action ran
    found,            \* history: ticks on which targets_found was true
    tick_elapsed,     \* history: time since loop_start, capped at StepPeriod
    gap,              \* history: time between the last two real_step calls
    spun,             \* history: how long the last spin loop ran
    arrived,          \* history: number of MQTT messages delivered
    multiple,         \* line 98: the last data_handler call found needs_processing set
    global_start_time, \* main(): datetime.utcnow().timestamp() at start-up
    error,            \* the exception main() ended with, "none" while it runs
    log_opens,        \* history: number of open() calls on the log file
    image_buf,        \* self.image_buf: the buffer the live view serves
    tmp_buf,          \* main(): tmp_buf, the buffer savefig writes
    fpc,              \* where the live view's request handler index() is
    served,           \* history: what the last response of index() carried
    requests          \* history: number of requests the live view has taken

vars == <<cfg, replay_data, replay_ts, data, static_position, static_heading,
          pc, time_step, control_actions, since_step, hpc, message_data, log,
          snapshots, merged, coherent, steps, plans, found, tick_elapsed,
          gap, spun, arrived, multiple, global_start_time, error, log_opens,
          image_buf, tmp_buf, fpc, served, requests>>

\* the variables of the live view
flask_vars == <<image_buf, tmp_buf, fpc, served, requests>>

-----------------------------------------------------------------------------
(* Bounds of the model *)

\* live mode: ticks of the main loop explored
MaxTicks == 2
\* live mode: MQTT messages delivered
MaxMsgs == 2
\* seconds a stage of one tick (real_step, the saves) may take at most
MaxWork == 1
\* requests the live view takes
MaxRequests == 2
\* bytes of a rendered image; a buffer holding fewer of them is partly written
ImageSize == 2

(* Program constants *)

\* main(): horizon = 1
horizon == 1
\* main(): step_duration = 1 (seconds)
step_duration == 1
\* main(): n_targets default "2"
n_targets == 2

None == <<>>
Some(x) == <<x>>
Min(a, b) == IF a < b THEN a ELSE b
Abs(x) == IF x < 0 THEN -x ELSE x

-----------------------------------------------------------------------------
(* Strings and floats *)

Digits == <<"0", "1", "2", "3", "4", "5", "6", "7", "8", "9">>

IsDigit(c) == \E i \in 1..10 : Digits[i] = c

\* ord(c) of a character the model uses: digits sort before letters
Ord(c) == IF IsDigit(c) THEN (CHOOSE i \in 1..10 : Digits[i] = c) - 1 ELSE 10

\* Python's s < t on strings: first differing character, a prefix is smaller
RECURSIVE StrLess(_, _)
StrLess(s, t) ==
    IF t = <<>> THEN FALSE
    ELSE IF s = <<>> THEN TRUE
    ELSE IF Head(s) # Head(t) THEN Ord(Head(s)) < Ord(Head(t))
    ELSE StrLess(Tail(s), Tail(t))

\* the value of a string of decimal digits
RECURSIVE DigitsValue(_)
DigitsValue(s) ==
    IF s = <<>> THEN 0
    ELSE 10 * DigitsValue(SubSeq(s, 1, Len(s) - 1)) + Ord(s[Len(s)])

\* keys sorted by the number they spell, not as strings
RECURSIVE SortedKeysNumeric(_)
SortedKeysNumeric(S) ==
    IF S = {} THEN <<>>
    ELSE LET m == CHOOSE x \in S :
                    \A y \in S \ {x} : DigitsValue(x) < DigitsValue(y)
         IN  <<m>> \o SortedKeysNumeric(S \ {m})

\* sorted(keys) as the selection of the minimum, repeated
RECURSIVE SortedKeys(_)
SortedKeys(S) ==
    IF S = {} THEN <<>>
    ELSE LET m == CHOOSE x \in S : \A y \in S \ {x} : StrLess(x, y)
         IN  <<m>> \o SortedKeys(S \ {m})

AllDigits(s) == s # <<>> /\ \A i \in 1..Len(s) : IsDigit(s[i])

\* a heading as a record carries it: a JSON string, or the float the static
\* override put there
StrVal(s) == [t |-> "str", s |-> s, v |-> 0]
FloatVal(x) == [t |-> "float", s |-> <<>>, v |-> x]

\* float(x) of a string "ddd" or "-ddd", or of a float
ParseFloat(s) ==
    IF Head(s) = "-" THEN -DigitsValue(Tail(s)) ELSE DigitsValue(s)

\* birdseye.utils.is_float(element) with element = message_data.get("heading", None):
\* float(element) succeeds
is_float(h) ==
    /\ h # None
    /\ \/ h[1].t = "float"
       \/ /\ h[1].t = "str"
          /\ h[1].s # <<>>
          /\ AllDigits(IF Head(h[1].s) = "-" THEN Tail(h[1].s) ELSE h[1].s)

\* float(element), for an element is_float accepts
float(h) == IF h[1].t = "float" THEN h[1].v ELSE ParseFloat(h[1].s)

\* Python truthiness of a number-or-None: None and 0 are false
Truthy(x) == x # None /\ x[1] # 0

-----------------------------------------------------------------------------
(* Geometry helpers of birdseye.utils *)

\* compass bearing of a displacement on the grid, degrees
Bearing(dlat, dlon) ==
    CASE dlat = 0 /\ dlon = 0 -> 0
      [] dlat > 0 /\ dlon = 0 -> 0
      [] dlat > 0 /\ dlon > 0 -> 45
      [] dlat = 0 /\ dlon > 0 -> 90
      [] dlat < 0 /\ dlon > 0 -> 135
      [] dlat < 0 /\ dlon = 0 -> 180
      [] dlat < 0 /\ dlon < 0 -> 225
      [] dlat = 0 /\ dlon < 0 -> 270
      [] OTHER -> 315

\* get_heading(coord1, coord2): bearing from coord1 to coord2, None if either is None
get_heading(p1, p2) ==
    IF p1 = None \/ p2 = None THEN None
    ELSE Some(Bearing(p2[1] - p1[1], p2[2] - p1[2]))

\* get_distance(coord1, coord2): distance between them, None if either is None
get_distance(p1, p2) ==
    IF p1 = None \/ p2 = None THEN None
    ELSE Some(Abs(p2[1] - p1[1]) + Abs(p2[2] - p1[2]))

-----------------------------------------------------------------------------
(* Geolocate.__init__ *)

InitData ==
    [rssi |-> None, position |-> None, distance |-> None,
     previous_position |-> None, heading |-> None, previous_heading |-> None,
     course |-> None, action_proposal |-> None, action_taken |-> None,
     needs_processing |-> FALSE,
     \* keys the constructor does not create; dict.get reads them as None
     drone_position |-> None, utc_time |-> None]

-----------------------------------------------------------------------------
(* Geolocate.data_handler, statement by statement.  m is message_data, a    *)
(* dict whose keys may be absent: an absent key is None, a present one is   *)
(* <<value>>.                                                               *)

\* overrides that leave the record's position alone
ApplyOverridesHeadingOnly(m, sp, sh) ==
    [m EXCEPT !.heading = IF sh # None THEN Some(FloatVal(sh[1])) ELSE @]

\* lines 100-103: the static overrides replace the record's fields
ApplyOverrides(m, sp, sh) ==
    [m EXCEPT !.position = IF sp # None THEN Some(sp) ELSE @,
              !.heading = IF sh # None THEN Some(FloatVal(sh[1])) ELSE @]

\* a merge that rolls previous_position forward whatever needs_processing is
RollPreviousPositionAlways(d) == [d EXCEPT !.previous_position = d.position]

\* lines 105-109
RollPreviousPosition(d) ==
    [d EXCEPT !.previous_position =
        IF ~d.needs_processing THEN d.position ELSE d.previous_position]

\* lines 110-114
RollPreviousHeading(d) ==
    [d EXCEPT !.previous_heading =
        IF ~d.needs_processing THEN d.heading ELSE d.previous_heading]

\* line 116: message_data.get("rssi", None)
SetRssi(d, m) ==
    [d EXCEPT !.rssi = IF m.rssi = None THEN None ELSE Some(m.rssi[1])]

\* a merge that takes the position from the record alone
SetPositionFromRecord(d, m) ==
    [d EXCEPT !.position = IF m.position = None THEN None ELSE m.position[1]]

\* line 117: message_data.get("position", self.data["position"])
SetPosition(d, m) ==
    [d EXCEPT !.position = IF m.position = None THEN d.position ELSE m.position[1]]

\* lines 120-122
SetCourse(d) ==
    [d EXCEPT !.course = get_heading(d.previous_position, d.position)]

\* a merge that keeps the old heading when the record has no numeric one
SetHeadingKeep(d, m) ==
    [d EXCEPT !.heading =
        IF is_float(m.heading) THEN Some(-float(m.heading) + 90) ELSE d.heading]

\* a reported heading negated but not turned by 90 degrees
SetHeadingNoOffset(d, m) ==
    [d EXCEPT !.heading =
        IF is_float(m.heading) THEN Some(-float(m.heading)) ELSE d.course]

\* lines 126-130
SetHeading(d, m) ==
    [d EXCEPT !.heading =
        IF is_float(m.heading) THEN Some(-float(m.heading) + 90) ELSE d.course]

\* lines 131-133
SetDistance(d) ==
    [d EXCEPT !.distance = get_distance(d.previous_position, d.position)]

\* lines 134-138: the truth value of a float decides, so 0.0 counts as missing
DeltaHeading(d) ==
    IF Truthy(d.heading) /\ Truthy(d.previous_heading)
    THEN Some(d.heading[1] - d.previous_heading[1])
    ELSE None

\* lines 139-143
SetActionTaken(d) ==
    [d EXCEPT !.action_taken =
        IF Truthy(DeltaHeading(d)) /\ Truthy(d.distance)
        THEN <<DeltaHeading(d)[1], d.distance[1]>>
        ELSE <<0, 0>>]

\* line 145: message_data.get("drone_position", None)
SetDronePosition(d, m) ==
    [d EXCEPT !.drone_position =
        IF m.drone_position = None THEN None ELSE m.drone_position[1]]

\* lines 146-150: swap lon,lat
SwapDronePosition(d) ==
    [d EXCEPT !.drone_position =
        IF d.drone_position # None
        THEN <<d.drone_position[2], d.drone_position[1]>>
        ELSE None]

\* line 152
SetNeedsProcessing(d) == [d EXCEPT !.needs_processing = TRUE]

\* the statements of data_handler that touch self.data, in program order
HandlerPoints ==
    <<"h105", "h110", "h116", "h117", "h120", "h126", "h131", "h139", "h145",
      "h146", "h152">>

\* the statement at one point, m being the record after lines 100-103
HandlerStatement(at, d, m) ==
    CASE at = "h105" -> RollPreviousPosition(d)
      [] at = "h110" -> RollPreviousHeading(d)
      [] at = "h116" -> SetRssi(d, m)
      [] at = "h117" -> SetPosition(d, m)
      [] at = "h120" -> SetCourse(d)
      [] at = "h126" -> SetHeading(d, m)
      [] at = "h131" -> SetDistance(d)
      [] at = "h139" -> SetActionTaken(d)
      [] at = "h145" -> SetDronePosition(d, m)
      [] at = "h146" -> SwapDronePosition(d)
      [] at = "h152" -> SetNeedsProcessing(d)

RECURSIVE RunHandlerFrom(_, _, _)
RunHandlerFrom(i, d, m) ==
    IF i > Len(HandlerPoints) THEN d
    ELSE RunHandlerFrom(i + 1, HandlerStatement(HandlerPoints[i], d, m), m)

\* data_handler(message_data) run to completion with nothing in between
data_handler(d, m, sp, sh) == RunHandlerFrom(1, d, ApplyOverrides(m, sp, sh))

\* the keys of self.data that only data_handler writes
MergeView(d) ==
    <<d.rssi, d.position, d.previous_position, d.heading, d.previous_heading,
      d.course, d.distance, d.action_taken, d.drone_position>>

-----------------------------------------------------------------------------
(* Inputs: telemetry records, replay files, configurations *)

Record(rssi, position, heading, drone_position) ==
    [rssi |-> rssi, position |-> position, heading |-> heading,
     drone_position |-> drone_position]

\* {"rssi": -50, "position": [10, 20], "heading": "30"}
RecA == Record(Some(-50), Some(<<10, 20>>), Some(StrVal(<<"3", "0">>)), None)
\* {"rssi": -50, "position": [10, 21], "heading": "40"}
RecB == Record(Some(-50), Some(<<10, 21>>), Some(StrVal(<<"4", "0">>)), None)
\* {"position": [10, 21]}
RecC == Record(None, Some(<<10, 21>>), None, None)
\* {"rssi": -60, "heading": "abc"}
RecD == Record(Some(-60), None, Some(StrVal(<<"a", "b", "c">>)), None)
\* {"position": [10, 20], "heading": "90", "drone_position": [1, 2]}
RecE == Record(None, Some(<<10, 20>>), Some(StrVal(<<"9", "0">>)), Some(<<1, 2>>))

Records == {RecA, RecB, RecC, RecD, RecE}

\* replay files: JSON objects from timestamp keys to records
ReplayFiles ==
    << (<<"1", "0">> :> RecA) @@ (<<"1", "1">> :> RecB) @@ (<<"9">> :> RecE),
       (<<"1">> :> RecC) @@ (<<"2">> :> RecD) >>

\* static_position = 10,20 (the option's text split at the commas)
Position1020 == << <<"1", "0">>, <<"2", "0">> >>
\* static_heading = 20
Heading20 == <<"2", "0">>

\* the configuration file: replay_file is 0 for None, else the file's number;
\* any_plot is local_plot, make_gif or use_flask being "true" (lines 269-275),
\* so use_flask implies it
Config(r, sp, sh, up, pm, ap, uf) ==
    [replay_file |-> r, static_position |-> sp, static_heading |-> sh,
     use_planner |-> up, planner_method |-> pm, any_plot |-> ap,
     use_flask |-> uf]

\* replay: every combination of the options
ReplayConfigs ==
    {c \in {Config(r, sp, sh, up, pm, ap, uf) :
                r \in 1..Len(ReplayFiles), sp \in {None, Position1020},
                sh \in {None, Heading20}, up \in BOOLEAN,
                pm \in {"repp", "bogus"}, ap \in BOOLEAN, uf \in BOOLEAN} :
        c.use_flask => c.any_plot}

\* live: a moving sensor, a stationary sensor with a planner, a sensor with a
\* fixed position whose view is plotted locally
LiveConfigs ==
    {Config(0, None, None, FALSE, "repp", FALSE, FALSE),
     Config(0, Position1020, Heading20, TRUE, "repp", FALSE, FALSE),
     Config(0, Position1020, None, FALSE, "repp", TRUE, FALSE)}

Configs == ReplayConfigs \cup LiveConfigs

Replaying == cfg.replay_file # 0

\* the spin loop of lines 421-422 runs while perf_counter() - step_time < step_duration
StepPeriod == step_duration

\* the wall clock when main() starts, seconds after the earliest start
StartTimes == {0, 1}

\* the runs explored: a recorded session is replayed from either start time, a
\* live session is followed from the earliest only
StartTimesFor(c) == IF c.replay_file # 0 THEN StartTimes ELSE {0}

\* intervals of StepPeriod and more are not told apart
Sat(x) == Min(x, StepPeriod)

-----------------------------------------------------------------------------
(* External collaborators *)

\* planner.get_action(): a sequence of horizon actions; an action is tagged
\* with the tick that planned it and its place in the plan
get_action(t) == [k \in 1..horizon |-> <<t, k>>]

\* a real_step that leaves needs_processing as it found it
real_step_keeps_flag(d) == d

\* env.real_step(data): the tick consumes the fused state and clears needs_processing
real_step(d) == [d EXCEPT !.needs_processing = FALSE]

-----------------------------------------------------------------------------
(* Image buffers: a BytesIO is the pair of the tick whose view was written   *)
(* into it (counted from 1, 0 for none) and the number of bytes it holds     *)

\* BytesIO()
EmptyBuffer == <<0, 0>>

\* the buffer fig.savefig has written the whole view of tick t into
Image(t) == <<t + 1, ImageSize>>

\* buf.getbuffer().nbytes
nbytes(buf) == buf[2]

-----------------------------------------------------------------------------
(* The state after Geolocate(config_path) *)

Init ==
    /\ cfg \in Configs
    /\ replay_data = <<>>
    /\ replay_ts = <<>>
    /\ data = InitData
    /\ static_position = None
    /\ static_heading = None
    /\ pc = "main"
    /\ time_step = 0
    /\ control_actions = <<>>
    /\ since_step \in 0..StepPeriod
    /\ hpc = "idle"
    /\ message_data = None
    /\ log = <<>>
    /\ snapshots = {}
    /\ merged = <<>>
    /\ coherent = InitData
    /\ steps = 0
    /\ plans = {}
    /\ found = {}
    /\ tick_elapsed = 0
    /\ gap = 0
    /\ spun = 0
    /\ arrived = 0
    /\ multiple = FALSE
    /\ global_start_time = 0
    /\ error = "none"
    /\ log_opens = 0
    /\ image_buf = EmptyBuffer
    /\ tmp_buf = EmptyBuffer
    /\ fpc = "idle"
    /\ served = None
    /\ requests = 0

-----------------------------------------------------------------------------
(* Geolocate.main: start-up *)

\* an exception that is caught and passed over: main() goes on to next
Swallowed(next) == next

\* an exception raised in main() where the statement after it leads to pc
\* next: nothing in main() catches it and the statement is not reached
Uncaught(next) == "crashed"

\* lines 227-229: [float(i) for i in static_position.split(",")]
StaticPosition(c) ==
    IF c.static_position # None
    THEN [i \in 1..Len(c.static_position) |-> ParseFloat(c.static_position[i])]
    ELSE None

\* lines 232-234: float(static_heading)
StaticHeading(c) ==
    IF c.static_heading # None THEN Some(ParseFloat(c.static_heading)) ELSE None

\* lines 230 and 235: the overrides are installed in self.data as they are
InstallOverrides(d, sp, sh) ==
    [d EXCEPT !.position = IF sp # None THEN sp ELSE @,
              !.heading = IF sh # None THEN sh ELSE @]

\* a binding that runs without a planner when the method is unknown
PlannerBindingLenient(c) ==
    IF ~c.use_planner THEN "none"
    ELSE IF c.planner_method \in {"repp", "lavapilot"} THEN "bound"
    ELSE "none"

\* lines 348-359: the planner the configuration binds; the "mcts" branch reads
\* names main() never assigns (line 357) and raises like an unknown method
PlannerBinding(c) ==
    IF ~c.use_planner THEN "none"
    ELSE IF c.planner_method \in {"repp", "lavapilot"} THEN "bound"
    ELSE "raise"

\* lines 197-379: everything main() does before its loops
Configure ==
    /\ pc = "main"
    /\ static_position' = StaticPosition(cfg)
    /\ static_heading' = StaticHeading(cfg)
    /\ data' = InstallOverrides(data, StaticPosition(cfg), StaticHeading(cfg))
    /\ coherent' = data'
    /\ replay_data' = IF Replaying THEN ReplayFiles[cfg.replay_file] ELSE <<>>
    /\ replay_ts' = IF Replaying
                    THEN SortedKeys(DOMAIN ReplayFiles[cfg.replay_file])
                    ELSE <<>>
    /\ global_start_time' \in StartTimesFor(cfg)
    /\ pc' = IF PlannerBinding(cfg) = "raise" THEN Uncaught("waiting") ELSE "waiting"
    /\ error' = IF PlannerBinding(cfg) = "raise" THEN "config" ELSE "none"
    /\ UNCHANGED <<cfg, time_step, control_actions, since_step, hpc,
                   message_data, log, snapshots, merged, steps, plans,
                   found, tick_elapsed, gap, spun, arrived, multiple, log_opens, flask_vars>>

\* a wait that only looks at the position
FixMissingPosition(d) == d.position = None

\* lines 381-383: while position is None or heading is None: sleep
FixMissing(d) == d.position = None \/ d.heading = None

WaitForFix ==
    /\ pc = "waiting"
    /\ pc' = IF FixMissing(data) THEN "waiting" ELSE "loop"
    /\ UNCHANGED <<cfg, replay_data, replay_ts, data, static_position,
                   static_heading, time_step, control_actions, since_step, hpc,
                   message_data, log, snapshots, merged, coherent,
                   steps, plans, found, tick_elapsed, gap, spun, arrived, multiple,
                   global_start_time, error, log_opens, flask_vars>>

-----------------------------------------------------------------------------
(* Geolocate.main: one iteration of the while True loop *)

\* datetime.utcnow().timestamp() of an iteration: the wall clock, which started
\* at global_start_time and which later iterations read later
UtcNow(t) == Some(global_start_time + t + 1)

\* a tick that drops the signal strength the last tick has used
StampTickFresh(d, t) == [d EXCEPT !.utc_time = UtcNow(t), !.rssi = None]

\* line 388: all a tick writes to self.data before its record, if it has one
StampTick(d, t) == [d EXCEPT !.utc_time = UtcNow(t)]

\* lines 387-394: time stamp, then the replay record of this tick, if any
LoopTop ==
    /\ pc = "loop"
    /\ Replaying \/ time_step < MaxTicks
    /\ tick_elapsed' = 0
    /\ IF Replaying /\ time_step = Len(replay_ts)
       THEN /\ pc' = "done"
            /\ data' = StampTick(data, time_step)
            /\ UNCHANGED <<merged, coherent, multiple>>
       ELSE IF Replaying
       THEN /\ pc' = "plan"
            /\ multiple' = data.needs_processing
            /\ data' = data_handler(StampTick(data, time_step),
                                    replay_data[replay_ts[time_step + 1]],
                                    static_position, static_heading)
            /\ merged' = Append(merged, replay_ts[time_step + 1])
            /\ coherent' = data'
       ELSE /\ pc' = "plan"
            /\ data' = StampTick(data, time_step)
            /\ UNCHANGED <<merged, coherent, multiple>>
    /\ UNCHANGED <<cfg, replay_data, replay_ts, static_position, static_heading,
                   time_step, control_actions, since_step, hpc, message_data,
                   log, snapshots, steps, plans, found, gap, spun,
                   arrived,
                   global_start_time, error, log_opens, flask_vars>>

\* planning that appends nothing once the targets are found
PlannedNoSentinel(q, t, f) ==
    IF t % horizon = 0 /\ ~f THEN q \o get_action(t) ELSE q

\* lines 399-411: the queue after this tick's planning, targets_found being f
Planned(q, t, f) ==
    IF t % horizon = 0
    THEN q \o (IF f THEN <<None>> ELSE get_action(t))
    ELSE q

\* lines 398-415: plan on every horizon-th tick, then take this tick's action
Plan ==
    /\ pc = "plan"
    /\ IF PlannerBinding(cfg) = "bound"
       THEN \E f \in BOOLEAN :
              LET q == Planned(control_actions, time_step, f) IN
              /\ control_actions' = q
              /\ found' = IF f /\ time_step % horizon = 0
                          THEN found \cup {time_step} ELSE found
              /\ plans' = IF ~f /\ time_step % horizon = 0
                          THEN plans \cup {time_step} ELSE plans
              /\ IF time_step + 1 <= Len(q)
                 THEN /\ data' = [data EXCEPT !.action_proposal = q[time_step + 1]]
                      /\ pc' = "step"
                      /\ error' = error
                 ELSE /\ data' = data          \* IndexError
                      /\ pc' = Uncaught("step")
                      /\ error' = "index"
       ELSE /\ pc' = "step"
            /\ UNCHANGED <<control_actions, found, plans, data, error>>
    /\ UNCHANGED <<cfg, replay_data, replay_ts, static_position, static_heading,
                   time_step, since_step, hpc, message_data, log, snapshots,
                   merged, coherent, steps, tick_elapsed, gap, spun,
                   arrived, multiple,
                   global_start_time, log_opens, flask_vars>>

\* a loop that never spins
SpinTimeNone(s) == 0

\* lines 421-422: how long the spin loop runs when entered s after step_time
SpinTime(s) == IF s < StepPeriod THEN StepPeriod - s ELSE 0

\* lines 421-424: spin until step_duration has passed since step_time, set
\* step_time = time.perf_counter(), then observation = env.real_step(self.data),
\* which takes w seconds
EnvStep ==
    /\ pc = "step"
    /\ spun' = SpinTime(since_step)
    /\ gap' = since_step + SpinTime(since_step)
    /\ \E w \in 0..MaxWork :
         /\ since_step' = Sat(w)
         /\ tick_elapsed' = Sat(tick_elapsed + SpinTime(since_step) + w)
    /\ data' = real_step(data)
    /\ steps' = steps + 1
    /\ pc' = "plot"
    /\ UNCHANGED <<cfg, replay_data, replay_ts, static_position, static_heading,
                   time_step, control_actions, hpc, message_data, log,
                   snapshots, merged, coherent, plans, found, arrived, multiple,
                   global_start_time, error, log_opens, flask_vars>>

\* a rendering that writes into the served buffer: half of the view is there
WhileRenderingInPlace(shared, t) == <<t + 1, ImageSize - 1>>

\* lines 439-441: what self.image_buf holds while savefig writes the view of
\* tick t: savefig writes tmp_buf, a new BytesIO, and no one else
WhileRendering(shared, t) == shared

\* lines 428-441: results.live_plot, tmp_buf = BytesIO() and fig.savefig(tmp_buf),
\* which may raise
Render ==
    /\ pc = "plot"
    /\ cfg.any_plot
    /\ tmp_buf # Image(time_step)
    /\ \E ok \in BOOLEAN :
         IF ok
         THEN /\ tmp_buf' = Image(time_step)
              /\ image_buf' = WhileRendering(image_buf, time_step)
              /\ UNCHANGED <<pc, error>>
         ELSE /\ pc' = Uncaught("save")
              /\ error' = "plot"
              /\ UNCHANGED <<tmp_buf, image_buf>>
    /\ UNCHANGED <<cfg, replay_data, replay_ts, data, static_position,
                   static_heading, time_step, control_actions, since_step, hpc,
                   message_data, log, snapshots, merged, coherent,
                   steps, plans, found, tick_elapsed, gap, spun, arrived, multiple,
                   global_start_time, log_opens, fpc, served, requests>>

\* lines 427-443: with plotting, self.image_buf = tmp_buf once the view is
\* rendered (line 442); without, nothing
Plot ==
    /\ pc = "plot"
    /\ IF cfg.any_plot
       THEN /\ tmp_buf = Image(time_step)
            /\ image_buf' = tmp_buf
       ELSE image_buf' = image_buf
    /\ pc' = "save"
    /\ UNCHANGED <<cfg, replay_data, replay_ts, data, static_position,
                   static_heading, time_step, control_actions, since_step, hpc,
                   message_data, log, snapshots, merged, coherent,
                   steps, plans, found, tick_elapsed, gap, spun, arrived, multiple,
                   global_start_time, error, log_opens, tmp_buf, fpc, served,
                   requests>>

\* a save loop that stops after the first target
ParticleFilesFirstTarget(d) == {<<d.utc_time, 0>>}

\* lines 445-451: one particle file per target, named by the tick's utc_time
ParticleFiles(d) == {<<d.utc_time, t>> : t \in 0..(n_targets - 1)}

\* lines 454-460: json.dump(self.data) writes one line; the history keeps the
\* utc_time it carries
LogLine(d) == d.utc_time

\* a log file opened by the first tick and kept open
OpenLogOnce(n) == IF n = 0 THEN 1 ELSE n

\* lines 454-458: the tick's open(..., "a") of the log file, n opens before it
OpenLog(n) == n + 1

\* lines 445-482: np.save per target, json.dump(self.data) to the log, time_step += 1.
\* k is how many of the writes succeed: all n_targets + 1 of them, or np.save
\* raises at target k, or the append to the opened log raises
Save ==
    /\ pc = "save"
    /\ \E k \in 0..(n_targets + 1) :
         /\ snapshots' = snapshots \cup {f \in ParticleFiles(data) : f[2] < k}
         /\ log_opens' = IF k >= n_targets THEN OpenLog(log_opens) ELSE log_opens
         /\ IF k = n_targets + 1
            THEN /\ log' = Append(log, LogLine(data))
                 /\ time_step' = time_step + 1
                 /\ pc' = "loop"
                 /\ error' = error
                 /\ \E w \in 0..MaxWork :
                      /\ since_step' = Sat(since_step + w)
                      /\ tick_elapsed' = Sat(tick_elapsed + w)
            ELSE /\ pc' = Uncaught("loop")
                 /\ error' = "persist"
                 /\ UNCHANGED <<log, time_step, since_step, tick_elapsed>>
    /\ UNCHANGED <<cfg, replay_data, replay_ts, data, static_position,
                   static_heading, control_actions, hpc, message_data, merged,
                   coherent, steps, plans, found, gap, spun, arrived, multiple,
                   global_start_time, flask_vars>>

-----------------------------------------------------------------------------
(* Live mode: the MQTT subscriber thread runs data_handler *)

\* line 281 on: a message arrives and the client calls data_handler(message_data),
\* which reads needs_processing for its log line (98-99) and applies the
\* overrides (100-103)
Deliver ==
    /\ ~Replaying
    /\ pc \in {"waiting", "loop", "plan", "step", "plot", "save"}
    /\ hpc = "idle"
    /\ arrived < MaxMsgs
    /\ \E m \in Records :
         message_data' = ApplyOverrides(m, static_position, static_heading)
    /\ hpc' = HandlerPoints[1]
    /\ multiple' = data.needs_processing
    /\ arrived' = arrived + 1
    /\ UNCHANGED <<cfg, replay_data, replay_ts, data, static_position,
                   static_heading, pc, time_step, control_actions, since_step,
                   log, snapshots, merged, coherent, steps, plans,
                   found, tick_elapsed, gap, spun,
                   global_start_time, error, log_opens, flask_vars>>

PointIndex(at) == CHOOSE i \in 1..Len(HandlerPoints) : HandlerPoints[i] = at

\* the subscriber thread executes its next statement of data_handler
HandlerStep ==
    /\ hpc # "idle"
    /\ data' = HandlerStatement(hpc, data, message_data)
    /\ IF PointIndex(hpc) = Len(HandlerPoints)
       THEN /\ hpc' = "idle"
            /\ message_data' = None
            /\ coherent' = data'
       ELSE /\ hpc' = HandlerPoints[PointIndex(hpc) + 1]
            /\ UNCHANGED <<message_data, coherent>>
    /\ UNCHANGED <<cfg, replay_data, replay_ts, static_position, static_heading,
                   pc, time_step, control_actions, since_step, log, snapshots,
                   merged, steps, plans, found, tick_elapsed, gap, spun,
                   arrived, multiple,
                   global_start_time, error, log_opens, flask_vars>>

-----------------------------------------------------------------------------
(* The live view: Flask's thread runs index() for every request *)

\* what index() answers: the loading page, or the page with an image
LoadingPage == <<"loading", EmptyBuffer>>
ImagePage(buf) == <<"image", buf>>

\* lines 161-166: a request arrives; index() reads self.image_buf and answers
\* with the loading page if it holds no bytes
FlaskRequest ==
    /\ cfg.use_flask
    /\ pc \in {"waiting", "loop", "plan", "step", "plot", "save", "done"}
    /\ fpc = "idle"
    /\ requests < MaxRequests
    /\ requests' = requests + 1
    /\ IF nbytes(image_buf) = 0
       THEN served' = LoadingPage /\ fpc' = "idle"
       ELSE served' = served /\ fpc' = "f168"
    /\ UNCHANGED <<cfg, replay_data, replay_ts, data, static_position,
                   static_heading, pc, time_step, control_actions, since_step,
                   hpc, message_data, log, snapshots, merged, coherent, steps,
                   plans, found, tick_elapsed, gap, spun, arrived, multiple,
                   global_start_time, error, log_opens, image_buf, tmp_buf>>

\* lines 168-180: index() reads self.image_buf again and answers with its bytes
FlaskRespond ==
    /\ fpc = "f168"
    /\ served' = ImagePage(image_buf)
    /\ fpc' = "idle"
    /\ UNCHANGED <<cfg, replay_data, replay_ts, data, static_position,
                   static_heading, pc, time_step, control_actions, since_step,
                   hpc, message_data, log, snapshots, merged, coherent, steps,
                   plans, found, tick_elapsed, gap, spun, arrived, multiple,
                   global_start_time, error, log_opens, image_buf, tmp_buf,
                   requests>>

-----------------------------------------------------------------------------

Next ==
    \/ Configure
    \/ WaitForFix
    \/ LoopTop
    \/ Plan
    \/ EnvStep
    \/ Render
    \/ Plot
    \/ Save
    \/ Deliver
    \/ HandlerStep
    \/ FlaskRequest
    \/ FlaskRespond

Spec == Init /\ [][Next]_vars

\* the statements of the main thread
MainThread ==
    \/ Configure \/ WaitForFix \/ LoopTop \/ Plan \/ EnvStep \/ Render \/ Plot
    \/ Save

-----------------------------------------------------------------------------
(* Properties *)

\* a step of the subscriber thread that executes the statement at point at
Executes(at) == hpc = at /\ hpc' # hpc

\* a replay tick merging its record (lines 392-394)
ReplayMerge == Replaying /\ pc = "loop" /\ pc' = "plan"

Previous(d) == <<d.previous_position, d.previous_heading>>

HeadingDelta(d) ==
    IF d.heading # None /\ d.previous_heading # None
    THEN Some(d.heading[1] - d.previous_heading[1])
    ELSE None

ExpectedActionTaken(d) ==
    IF HeadingDelta(d) # None /\ d.distance # None
    THEN <<HeadingDelta(d)[1], d.distance[1]>>
    ELSE <<0, 0>>

\* some record has been merged completely and no merge is under way
Merged == hpc = "idle" /\ (arrived > 0 \/ Len(merged) > 0) /\ pc # "main"

\* C2 (as stated): action_taken is a pair in every state real_step is about to
\* read, and after a merge it is (heading - previous_heading, distance) unless
\* one of the two is undefined, when it is (0, 0)
C2_ActionTakenDefined ==
    /\ pc = "step" => data.action_taken # None
    /\ Merged => data.action_taken = ExpectedActionTaken(data)

\* C3: once main() has read a static_position option, self.data["position"] is
\* that position in every state, whatever the records carry
C3_StaticPosition ==
    (pc # "main" /\ cfg.static_position # None) =>
        /\ static_position = <<10, 20>>
        /\ data.position = static_position

\* C3 witness: replay of the first file under the override; the file's records
\* carry [10, 20], [10, 21] and [10, 20] and all three have been merged
C3_Witness ==
    /\ cfg.static_position # None /\ cfg.replay_file = 1
    /\ pc = "done" /\ Len(merged) = 3
    /\ data.position = <<10, 20>>

\* the ticks whose planning stage (lines 399-411) has run
PlanningDone ==
    {t \in 0..time_step :
        /\ t % horizon = 0
        /\ t < time_step \/ pc \in {"step", "plot", "save"}}

InLoop == pc \in {"loop", "plan", "step", "plot", "save", "done"}

\* C4 (as stated): with a planner, get_action has run exactly once on every
\* tick whose index is a multiple of horizon
C4_PlannedEveryHorizon ==
    (PlannerBinding(cfg) = "bound" /\ InLoop) => plans = PlanningDone

\* C4 (amended): with a planner, every tick whose index is a multiple of
\* horizon either calls get_action once or, when targets_found holds, queues
\* the sentinel instead, and no other tick plans; the queue holds one entry per
\* tick planned for, the entry of tick t is the one planned for t, and the tick
\* proposes exactly that entry
C4_PlannerQueue ==
    PlannerBinding(cfg) = "bound" =>
        /\ Len(control_actions) = horizon * Cardinality(plans) + Cardinality(found)
        /\ plans \cap found = {}
        /\ InLoop => plans \cup found = PlanningDone
        /\ \A i \in 1..Len(control_actions) :
              control_actions[i] =
                 IF (i - 1) \in found THEN None ELSE get_action(i - 1)[1]
        /\ pc \in {"step", "plot", "save"} =>
              /\ time_step + 1 <= Len(control_actions)
              /\ data.action_proposal = control_actions[time_step + 1]

\* C4 witness: the second tick proposes the action planned for it, after a
\* first tick on which the targets were found and the sentinel was queued
C4_Witness ==
    /\ PlannerBinding(cfg) = "bound" /\ pc = "step" /\ time_step = 1
    /\ found = {0} /\ plans = {1}
    /\ control_actions = <<None, <<1, 1>> >>
    /\ data.action_proposal = <<1, 1>>

C7_TickNotShorter ==
    (pc = "loop" /\ time_step > 0) => tick_elapsed >= StepPeriod

\* C7 (amended): at least step_duration passes between two consecutive
\* real_step calls; a tick that reaches the spin loop a full step_duration or
\* more after the previous call does not spin; and no tick index is skipped:
\* every tick steps the environment once and appends one log line
C7_StepPeriod ==
    /\ steps >= 2 => gap >= StepPeriod
    /\ (steps >= 2 /\ gap - spun >= StepPeriod) => spun = 0
    /\ Len(log) = time_step
    /\ pc \in {"waiting", "loop", "plan", "step", "done"} => steps = time_step
    /\ pc \in {"plot", "save"} => steps = time_step + 1

\* C7 witness: the second real_step has been called, a full period after the
\* first, in a tick that began no time after the first tick's step
C7_Witness ==
    /\ steps = 2 /\ pc = "plot" /\ time_step = 1
    /\ gap = StepPeriod /\ spun = StepPeriod /\ tick_elapsed = StepPeriod
    /\ since_step = 0

\* C8 (as stated): with plotting on, a tick whose real_step has completed gets
\* its log line (and the loop goes on) whatever live_plot and savefig do
C8_PlotFailureHarmless ==
    (cfg.any_plot /\ pc \notin {"plot", "save"} /\ error # "persist") =>
        Len(log) = steps

\* C9 (as stated), live mode: once targets_found holds on a planning tick and
\* that tick's queue entry, the sentinel, has been consumed, no further tick runs
C9_StopsAfterSentinel ==
    ~Replaying =>
        \A t \in found :
            /\ time_step <= t + 1
            /\ time_step = t + 1 => pc \in {"loop", "done"}

\* C10 (as stated): what real_step reads (line 424) and what json.dump writes
\* (line 459) is never a dict that data_handler has merged a record into only
\* in part
C10_NoTornRead ==
    [][(\/ pc = "step" /\ pc' = "plot"
        \/ pc = "save" /\ pc' = "loop") =>
            MergeView(data) = MergeView(coherent)]_vars

\* the record a replay tick merges, after lines 100-103
ReplayRecord ==
    ApplyOverrides(replay_data[replay_ts[time_step + 1]],
                   static_position, static_heading)

C12_ClearedEachTick ==
    [][/\ (pc = "step" /\ pc' = "plot") =>
            /\ ~data'.needs_processing
            /\ steps' = steps + 1
       /\ ReplayMerge =>
            /\ ~data.needs_processing
            /\ ~multiple'
            /\ Previous(data') = <<data.position, data.heading>>
            /\ data'.needs_processing
       /\ Replaying => ~multiple'
      ]_vars

\* C12 witness: replay, the third record has just been merged after two
\* completed ticks; previous_heading is the stored heading of the second merge
C12_Witness ==
    /\ Replaying /\ pc = "plan" /\ time_step = 2 /\ steps = 2
    /\ ~multiple /\ data.needs_processing
    /\ data.previous_heading = Some(70) /\ data.heading = Some(70)

\* the key of a replay file that k - 1 of its keys sort before, as strings
KeyAt(file, k) ==
    CHOOSE x \in DOMAIN file :
        Cardinality({y \in DOMAIN file : StrLess(y, x)}) = k - 1

\* the fused state a replay under configuration c holds once k records are
\* merged: the merges of the file's records in key order, each after the tick
\* before it consumed the state
RECURSIVE FusedAfter(_, _)
FusedAfter(c, k) ==
    IF k = 0
    THEN InstallOverrides(InitData, StaticPosition(c), StaticHeading(c))
    ELSE data_handler(real_step(FusedAfter(c, k - 1)),
                      ReplayFiles[c.replay_file][KeyAt(ReplayFiles[c.replay_file], k)],
                      StaticPosition(c), StaticHeading(c))

\* the records a replay has merged when main() is at pc in tick time_step
MergedByNow ==
    IF pc \in {"plan", "step", "plot", "save"} THEN time_step + 1 ELSE time_step

RecognisedMethods == {"repp", "lavapilot", "mcts"}

\* main() has not gone past its start-up: no tick has begun
NeverTicked ==
    /\ pc \in {"main", "crashed"}
    /\ steps = 0 /\ time_step = 0 /\ log = <<>> /\ snapshots = {}
    /\ merged = <<>> /\ data.utc_time = None

\* C14 (as stated): with a planner_method that is not a recognised value the
\* process never performs a tick, whether use_planner is set or not
C14_UnknownMethodFatal ==
    cfg.planner_method \notin RecognisedMethods => NeverTicked

\* C14 (amended): with use_planner set, a planner_method that is not a
\* recognised value ends main() at start-up, before any tick; with use_planner
\* not set, planner_method is not looked at: no planner is bound, nothing is
\* ever planned or proposed
C14_UnknownMethodFatalWithPlanner ==
    /\ (cfg.use_planner /\ cfg.planner_method \notin RecognisedMethods) =>
            NeverTicked
    /\ ~cfg.use_planner =>
            /\ pc # "main" => pc # "crashed" \/ steps > 0
            /\ control_actions = <<>> /\ plans = {} /\ found = {}
            /\ data.action_proposal = None

\* C14 witness: use_planner = true and planner_method = bogus: main() has
\* raised at line 359
C14_Witness ==
    /\ cfg.use_planner /\ cfg.planner_method = "bogus"
    /\ pc = "crashed" /\ NeverTicked /\ global_start_time = 1

\* C15: while main() is in its wait loop (and before it) nothing of a tick has
\* happened: no real_step, no planning, no queue entry, no log line, no
\* particle file; the wait loop is left only for the main loop and only from a
\* state whose position and heading are both defined, and it is not left
\* while one of them is undefined
C15_NoProgressWaiting ==
    [][/\ pc' \in {"main", "waiting"} =>
            /\ steps' = 0 /\ time_step' = 0
            /\ plans' = {} /\ found' = {} /\ control_actions' = <<>>
            /\ log' = <<>> /\ snapshots' = {}
            /\ data'.utc_time = None /\ data'.action_proposal = None
       /\ (pc = "waiting" /\ pc' # "waiting") =>
            /\ pc' = "loop"
            /\ data.position # None /\ data.heading # None
       /\ (pc = "waiting" /\ (data.position = None \/ data.heading = None)) =>
            pc' = "waiting"
      ]_vars

\* C15 witness: live, no overrides: main() waited until a record brought a
\* position and a heading, has just left the wait loop, and no tick has begun
C15_Witness ==
    /\ ~Replaying /\ cfg.static_position = None /\ cfg.static_heading = None
    /\ pc = "loop" /\ time_step = 0 /\ steps = 0 /\ arrived >= 1
    /\ data.position # None /\ data.heading # None
    /\ data.utc_time = None /\ log = <<>>

\* the particle files of the ticks 0..(n - 1)
FilesOfTicks(n) ==
    {<<UtcNow(t), k>> : t \in 0..(n - 1), k \in 0..(n_targets - 1)}

\* C16: per-tick persistence is complete and ordered.  The log holds one
\* record per completed tick (time_step of them), record t carrying the
\* utc_time tick t was stamped with; the particle files are exactly one per
\* target for each of those ticks, named by the same utc_time (plus, while a
\* failed save is being raised, files of the tick that failed).  real_step has
\* run once more than there are records only between a tick's real_step and
\* the end of its save: the next tick's real_step starts from a state where
\* every earlier tick is persisted in full.
C16_PersistedEachTick ==
    /\ Len(log) = time_step
    /\ \A t \in 1..Len(log) : log[t] = UtcNow(t - 1)
    /\ FilesOfTicks(time_step) \subseteq snapshots
    /\ error # "persist" => snapshots = FilesOfTicks(time_step)
    /\ snapshots \subseteq FilesOfTicks(time_step + 1)
    /\ pc \in {"waiting", "loop", "plan", "step", "done"} => steps = time_step
    /\ pc \in {"plot", "save"} =>
          /\ steps = time_step + 1
          /\ data.utc_time = UtcNow(time_step)
    /\ steps \in {time_step, time_step + 1}

\* C16 witness: live, two ticks completed: two log records and four particle
\* files, and the third tick has not stepped the environment yet
C16_Witness ==
    /\ ~Replaying /\ pc = "loop" /\ time_step = 2 /\ steps = 2
    /\ log = <<Some(1), Some(2)>>
    /\ snapshots = {<<Some(1), 0>>, <<Some(1), 1>>, <<Some(2), 0>>, <<Some(2), 1>>}

\* C17 (as stated): the log file is opened once in the whole run
C17_LogOpenedOnce == log_opens <= 1

\* C17 (amended): every tick opens the log file in append mode for its own
\* record and closes it again: there are as many opens as records, one more
\* when the append under the last open raised
C17_LogOpenedEachTick ==
    /\ Len(log) = time_step
    /\ error # "persist" => log_opens = Len(log)
    /\ error = "persist" => log_opens \in {Len(log), Len(log) + 1}

\* C17 witness: two ticks completed, the log opened twice, both records kept
C17_Witness ==
    /\ pc = "loop" /\ time_step = 2 /\ log_opens = 2
    /\ log = <<UtcNow(0), UtcNow(1)>>

\* C18: when np.save or the append to the log raises, the exception ends
\* main(): the failing tick has stepped the environment but is not counted and
\* has no log record, and from then on nothing happens: no later tick, no
\* real_step, no record, no particle file
C18_PersistFailureFatal ==
    [][/\ error' = "persist" =>
            /\ pc' = "crashed"
            /\ steps' = time_step' + 1
            /\ Len(log') = time_step'
            /\ snapshots' # FilesOfTicks(time_step' + 1) \/ log_opens' = Len(log') + 1
       /\ error = "persist" =>
            /\ error' = "persist"
            /\ UNCHANGED <<time_step, steps, log, snapshots, log_opens,
                           control_actions, pc>>
      ]_vars

\* C18 witness: the second tick's np.save wrote the file of target 0 and raised
\* at target 1; the first tick's record is the only one
C18_Witness ==
    /\ error = "persist" /\ pc = "crashed" /\ time_step = 1 /\ steps = 2
    /\ log = <<UtcNow(0)>> /\ log_opens = 1
    /\ <<UtcNow(1), 0>> \in snapshots /\ <<UtcNow(1), 1>> \notin snapshots

\* the record being merged has no heading or the heading "abc"
NoNumericHeading ==
    /\ message_data # None
    /\ message_data.heading \in {None, Some(StrVal(<<"a", "b", "c">>))}

\* C19: a record with no heading or a non-numeric one does not stop the merge:
\* line 126 goes on to line 131 and the merge runs to its end, and the heading
\* it stores is the course from previous_position to position, None exactly
\* when the course is None (one of the two positions is undefined)
C19_HeadingFallback ==
    [][/\ (Executes("h126") /\ NoNumericHeading) =>
            /\ hpc' = "h131"
            /\ data'.heading = get_heading(data.previous_position, data.position)
            /\ data'.heading = data'.course
       /\ (Executes("h152") /\ NoNumericHeading) =>
            /\ hpc' = "idle"
            /\ data'.heading = get_heading(data'.previous_position, data'.position)
            /\ data'.heading = None <=>
                 (data'.previous_position = None \/ data'.position = None)
      ]_vars

\* C19 witness: live, no overrides: after a consumed fix at [10, 20] the record
\* {"position": [10, 21]}, which has no heading, has been merged: the heading
\* is the course 90 from [10, 20] to [10, 21]
C19_Witness ==
    /\ ~Replaying /\ cfg.static_heading = None
    /\ hpc = "idle" /\ arrived = 2 /\ steps >= 1
    /\ data.rssi = None /\ data.drone_position = None
    /\ data.previous_position = <<10, 20>> /\ data.position = <<10, 21>>
    /\ data.course = Some(90) /\ data.heading = Some(90)

\* C20: live mode.  No stage of a tick waits for a record: whatever the
\* subscriber thread is doing and however many records have arrived, none
\* included, the main thread's next statement can run.  A tick leaves the
\* telemetry fields of self.data as it finds them, steps the environment once
\* and appends one record.  A record that arrives is merged at once, by the
\* thread that received it: there is no queue, only the record being merged.
C20_LiveTickNeverWaits ==
    [][~Replaying =>
        /\ pc \in {"plan", "step", "plot", "save"} => ENABLED MainThread
        /\ (pc = "loop" /\ time_step < MaxTicks) => ENABLED LoopTop
        /\ (InLoop /\ pc' # pc) => MergeView(data') = MergeView(data)
        /\ (pc = "loop" /\ pc' # pc) =>
              /\ pc' = "plan"
              /\ steps' = time_step /\ Len(log') = time_step
        /\ (pc = "save" /\ pc' = "loop") =>
              /\ time_step' = time_step + 1
              /\ steps' = time_step' /\ Len(log') = time_step'
        /\ arrived' # arrived =>
              /\ hpc = "idle" /\ hpc' = HandlerPoints[1]
              /\ message_data = None /\ message_data' # None
        /\ (message_data # None) <=> (hpc # "idle")
      ]_vars

\* C20 witness: live with both overrides: two ticks have run to their end, each
\* with its real_step and its record, and no record has ever arrived
C20_Witness ==
    /\ ~Replaying /\ arrived = 0 /\ pc = "loop" /\ time_step = 2
    /\ steps = 2 /\ Len(log) = 2
    /\ data.rssi = None /\ data.position = <<10, 20>> /\ ~data.needs_processing

\* C21 (as stated): the fused state real_step is about to read (line 424) has
\* a position and a heading, whatever records were merged since the wait loop
\* was left
C21_FixKept ==
    pc = "step" => (data.position # None /\ data.heading # None)

\* the view the main loop has published last, the empty buffer before any
LastPublished ==
    IF (pc = "save" \/ error = "persist") /\ cfg.any_plot THEN Image(time_step)
    ELSE IF time_step > 0 /\ cfg.any_plot THEN Image(time_step - 1)
    ELSE EmptyBuffer

\* C22: live view.  self.image_buf always holds the empty initial buffer or a
\* whole image, the one published last; index() answers with the loading page
\* or with a whole image that is no newer than the one published last; and
\* whatever index() is doing, the main thread's planning, step, plot and
\* persistence statements can run (the loop top touches no buffer)
C22_LiveViewWholeImages ==
    cfg.use_flask =>
        /\ image_buf = LastPublished
        /\ nbytes(image_buf) \in {0, ImageSize}
        /\ \/ served \in {None, LoadingPage}
           \/ /\ served[1] = "image"
              /\ nbytes(served[2]) = ImageSize
              /\ served[2][1] \in 1..image_buf[1]
        /\ fpc # "idle" => nbytes(image_buf) = ImageSize
        /\ pc \in {"plan", "step", "plot", "save"} => ENABLED MainThread

\* C22 witness: while the main loop has rendered the third tick's view into
\* tmp_buf and not yet published it, index() has answered its second request
\* with the whole view of the second tick
C22_Witness ==
    /\ cfg.use_flask /\ pc = "plot" /\ time_step = 2
    /\ tmp_buf = Image(2) /\ image_buf = Image(1)
    /\ requests = 2 /\ fpc = "idle" /\ served = ImagePage(Image(1))

\* C23 (as stated): with a static heading override the fused heading has one
\* value in every reachable state, the one installed at start-up
C23_StaticHeadingConstant ==
    static_heading # None => data.heading = static_heading

\* C24 (as stated): every merge leaves needs_processing true on exit, and a
\* merge entered with needs_processing already true leaves previous_position
\* and previous_heading as they were
C24_MergeWhileUnprocessed ==
    [][/\ (Executes("h152") \/ ReplayMerge) => data'.needs_processing
       /\ (multiple /\ (Executes("h105") \/ Executes("h110"))) =>
              /\ data'.previous_position = data.previous_position
              /\ data'.previous_heading = data.previous_heading]_vars

\* the subscriber thread is inside data_handler and has executed statement at
Past(at) == hpc # "idle" /\ PointIndex(hpc) > PointIndex(at)

\* a record's drone_position [a, b] as lines 145-150 leave it: [b, a]
StoredSwapped(v) == IF v = None THEN None ELSE <<v[1][2], v[1][1]>>

\* C25: a merge of a record without position leaves the fused position as the
\* last completed merge left it; the merge stores the record's rssi, None when
\* the record has none; it stores the record's drone_position [a, b] as
\* [b, a], None when the record has none.  On the subscriber thread this holds
\* from the statement that writes the field to the end of the merge, in replay
\* for the whole tick that merged the record (a replay ticks only with the
\* position override, which gives every record a position).
C25_AbsentFields ==
    /\ (hpc # "idle" /\ message_data.position = None) =>
           data.position = coherent.position
    /\ Past("h116") => data.rssi = message_data.rssi
    /\ Past("h146") =>
           data.drone_position = StoredSwapped(message_data.drone_position)
    /\ (Replaying /\ pc \in {"plan", "step", "plot", "save"}) =>
           /\ data.rssi = ReplayRecord.rssi
           /\ data.drone_position = StoredSwapped(ReplayRecord.drone_position)
           /\ ReplayRecord.position # None

\* C25 witness: live, {position [10, 20], heading "90", drone_position [1, 2]}
\* was merged and stored drone_position [2, 1]; the merge of
\* {rssi -60, heading "abc"} has reached its last statement: position is still
\* [10, 20] and drone_position is None again
C25_Witness ==
    /\ ~Replaying /\ arrived = 2 /\ hpc = "h152"
    /\ message_data.position = None /\ message_data.drone_position = None
    /\ coherent.position = <<10, 20>> /\ coherent.drone_position = <<2, 1>>
    /\ coherent.rssi = None
    /\ data.position = <<10, 20>> /\ data.drone_position = None
    /\ data.rssi = Some(-60)

-----------------------------------------------------------------------------
(* Scheduling: the main thread and the subscriber thread both keep running; *)
(* the arrival of messages is up to the broker                              *)

FairSpec ==
    Spec /\ WF_vars(MainThread) /\ WF_vars(HandlerStep) /\ WF_vars(FlaskRespond)

\* C6 (as stated): in replay mode the main loop always exits in the end
C6_ReplayTerminates == Replaying => <>(pc \in {"done", "crashed"})

====
